---- MODULE Spec2Model ----
(***************************************************************************)
(* PyXenaManager, xenamanager/xena_app.py: the session -> chassis ->       *)
(* module -> port object tree, the commands the session and chassis        *)
(* operations send, and the polling of the traffic state.                  *)
(*                                                                         *)
(* Strings are sequences of one-character strings ("a/0/1" is              *)
(* <<"a","/","0","/","1">>), so that str.format, str.split, str.replace    *)
(* and int() are computed, not assumed.                                    *)
(***************************************************************************)
EXTENDS Integers, Sequences, FiniteSets, TLC

\* ------------------------------------------------------------------ bounds

\* most nodes (chassis, modules, ports) the object tree may hold
MaxNodes == 5
\* most locations in one reserve_ports call
MaxLocations == 2
\* most polls one wait_for_states may make one poll interval apart before
\* the remaining, equal polls are taken in one step
MaxPolls == 1
\* an operation's transport call that breaks, if one does, is among its
\* first MaxFail
MaxFail == 2
\* most requests each thread of a chassis connection makes
MaxRequests == 3

\* ----------------------------------------------------------------- strings

Digits == <<"0", "1", "2", "3", "4", "5", "6", "7", "8", "9">>

RECURSIVE IntToStr(_)
\* str(n) / '{}'.format(n) of a natural number
IntToStr(n) ==
    IF n < 10 THEN <<Digits[n + 1]>>
    ELSE IntToStr(n \div 10) \o <<Digits[(n % 10) + 1]>>

DigitVal(c) == (CHOOSE i \in 1..10 : Digits[i] = c) - 1

RECURSIVE StrToInt(_)
\* int(s) of a string of decimal digits
StrToInt(s) ==
    IF Len(s) = 0 THEN 0
    ELSE 10 * StrToInt(SubSeq(s, 1, Len(s) - 1)) + DigitVal(s[Len(s)])

RECURSIVE Split(_, _)
\* s.split(sep): the pieces of s between the occurrences of sep
Split(s, sep) ==
    IF \A i \in 1..Len(s) : s[i] # sep THEN <<s>>
    ELSE LET k == CHOOSE i \in 1..Len(s) :
                      s[i] = sep /\ \A j \in 1..(i - 1) : s[j] # sep
         IN  <<SubSeq(s, 1, k - 1)>> \o Split(SubSeq(s, k + 1, Len(s)), sep)

\* s.replace(a, b) for one-character a and b
Replace(s, a, b) == [i \in 1..Len(s) |-> IF s[i] = a THEN b ELSE s[i]]

RECURSIVE Join(_, _)
\* sep.join(parts)
Join(parts, sep) ==
    IF Len(parts) = 0 THEN <<>>
    ELSE IF Len(parts) = 1 THEN parts[1]
    ELSE parts[1] \o <<sep>> \o Join(Tail(parts), sep)

\* '{}/{}'.format(a, b)
Format2(a, b) == a \o <<"/">> \o b

\* ---------------------------------------------------------------- hardware

\* the chassis addresses a caller may name
Addresses == {<<"a">>, <<"b">>}

\* c_portcounts of each chassis: the port count of every module position
PortCounts(ip) == IF ip = <<"a">> THEN <<0, 2>> ELSE <<1>>

\* m_cfptype of a module: the first module position of a chassis holds a
\* pluggable (CFP) module, the others do not
CfpType(ip, m) == IF m = 0 THEN <<"C", "F", "P">>
                  ELSE <<"N", "O", "T", "C", "F", "P">>

\* the port locations <ip>/<module>/<port> the hardware has
HwLocations ==
    { Format2(ip, Format2(IntToStr(m), IntToStr(p))) :
        <<ip, m, p>> \in
            { t \in Addresses \X (0..1) \X (0..1) :
                /\ t[2] + 1 <= Len(PortCounts(t[1]))
                /\ t[3] < PortCounts(t[1])[t[2] + 1] } }

\* -------------------------------------------------------------- the state

VARIABLES
    nodes,    \* the object tree: the nodes below the session, in creation order
    owner,    \* hardware: who holds the reservation of each port location
    reserved, \* the locations this session has reserved so far (history)
    traffic,  \* hardware: the traffic state of each port location
    target,   \* hardware: the traffic state a port was commanded to and has not taken yet
    log,      \* what the running (or last) operation sent to the transports
    call,     \* the running (or last) operation and its arguments
    result,   \* "idle", "running", or how it ended: "ok" or the error raised
    proc,     \* the position of a traffic operation inside its loops
    sock      \* one chassis connection, as its two threads and the chassis see it

vars == <<nodes, owner, reserved, traffic, target, log, call, result, proc, sock>>

\* the session is node 0, the root; a node is
\* [kind, index, name, parent, api]: api is the chassis transport's state
Session == 0

\* ------------------------------------------------ the tree (XenaObject)

\* the children of node n, in creation order
ChildIds(ns, n) ==
    LET childOfN(i) == ns[i].parent = n
    IN  SelectSeq([i \in 1..Len(ns) |-> i], childOfN)

RECURSIVE Subtrees(_, _)
Subtrees(ns, cs) ==
    IF Len(cs) = 0 THEN <<>>
    ELSE <<cs[1]>> \o Subtrees(ns, ChildIds(ns, cs[1]))
                   \o Subtrees(ns, Tail(cs))

\* all descendants of n, in tree order
Descendants(ns, n) == Subtrees(ns, ChildIds(ns, n))

\* get_objects_by_type(kind)
GetObjectsByType(ns, n, kind) ==
    LET ofKind(i) == ns[i].kind = kind
    IN  SelectSeq(Descendants(ns, n), ofKind)

\* get_object_by_name(name): the first descendant of that name, 0 if none
GetObjectByName(ns, n, name) ==
    LET named(i) == ns[i].name = name
        found == SelectSeq(Descendants(ns, n), named)
    IN  IF Len(found) = 0 THEN 0 ELSE found[1]

RECURSIVE ChassisOf(_, _)
\* the chassis a node belongs to (the node itself, for a chassis)
ChassisOf(ns, n) ==
    IF ns[n].kind = "chassis" THEN n ELSE ChassisOf(ns, ns[n].parent)

\* the name of a new node: the one given, else <chassis name>/<index>
NodeName(ns, parent, index) == Format2(ns[ChassisOf(ns, parent)].name, index)

\* XenaObject.__init__: the new node becomes the last child of its parent
NewNode(ns, kind, index, parent, name) ==
    Append(ns, [kind |-> kind, index |-> index, name |-> name,
                parent |-> parent,
                api |-> IF kind = "chassis" THEN "connected" ELSE "none"])

\* a Python dict {str(o): o for o in ids} as the sequence of its values:
\* a key keeps the place of its first insertion and the value of its last
RECURSIVE DictUpdate(_, _, _)
DictUpdate(ns, d, ids) ==
    IF Len(ids) = 0 THEN d
    ELSE LET o == ids[1]
             same == { j \in 1..Len(d) : ns[d[j]].name = ns[o].name }
         IN  DictUpdate(ns,
                 IF same = {} THEN Append(d, o)
                 ELSE [j \in 1..Len(d) |-> IF j \in same THEN o ELSE d[j]],
                 Tail(ids))

\* XenaSession.chassis_list
ChassisList(ns) == DictUpdate(ns, <<>>, GetObjectsByType(ns, Session, "chassis"))

\* the names in chassis_list
ChassisNames(ns) ==
    LET chassis_list == ChassisList(ns)
    IN  { ns[chassis_list[j]].name : j \in 1..Len(chassis_list) }

\* chassis_list[ip], 0 for a KeyError
ChassisByIp(ns, ip) ==
    LET chassis_list == ChassisList(ns)
        hit == { j \in 1..Len(chassis_list) : ns[chassis_list[j]].name = ip }
    IN  IF hit = {} THEN 0 ELSE chassis_list[CHOOSE j \in hit : TRUE]

\* the chassis nodes of a tree
ChassisIds(ns) == { i \in 1..Len(ns) : ns[i].kind = "chassis" }

\* XenaChassis.ports
ChassisPorts(ns, c) == DictUpdate(ns, <<>>, GetObjectsByType(ns, c, "port"))

RECURSIVE PortsOfAll(_, _, _)
PortsOfAll(ns, cs, d) ==
    IF Len(cs) = 0 THEN d
    ELSE PortsOfAll(ns, Tail(cs),
             DictUpdate(ns, d,
                 DictUpdate(ns, <<>>, GetObjectsByType(ns, cs[1], "port"))))

\* XenaSession.ports
SessionPorts(ns) == PortsOfAll(ns, ChassisList(ns), <<>>)

\* XenaSession._get_operation_ports
SessionOperationPorts(ns, ports) ==
    IF Len(ports) > 0 THEN ports ELSE SessionPorts(ns)

\* XenaChassis._get_operation_ports
ChassisOperationPorts(ns, c, ports) ==
    IF Len(ports) > 0 THEN ports ELSE ChassisPorts(ns, c)

RECURSIVE PerChassis(_, _, _)
PerChassis(ns, ports, d) ==
    IF Len(ports) = 0 THEN d
    ELSE LET p == ports[1]
             c == GetObjectByName(ns, Session, Split(ns[p].name, "/")[1])
             at == { j \in 1..Len(d) : d[j].chassis = c }
         IN  PerChassis(ns, Tail(ports),
                 IF at = {} THEN Append(d, [chassis |-> c, ports |-> <<p>>])
                 ELSE [j \in 1..Len(d) |->
                         IF j \in at
                         THEN [d[j] EXCEPT !.ports = Append(@, p)]
                         ELSE d[j]])

\* XenaSession._per_chassis_ports: the dict {chassis: [ports]} as the
\* sequence of its items
PerChassisPorts(ns, ports) == PerChassis(ns, ports, <<>>)

\* ------------------------------------------- commands and the hardware

\* An operation runs on a record x of the state it reads and writes:
\* [nodes, owner, reserved, target, log, res, fuel].  res is "ok" until an error is
\* raised, and every step after a raise is skipped (the exception
\* propagates to the caller).  fuel = k > 0: the k-th transport call from
\* here fails; fuel = 0: none does.

Quote(s) == <<"\"">> \o s \o <<"\"">>

Password == <<"x", "e", "n", "a">>
SessionOwner == <<"m", "e">>

Event(x, kind, n, cmd, a1, a2, res) ==
    [kind |-> kind, ch |-> x.nodes[ChassisOf(x.nodes, n)].name,
     obj |-> x.nodes[n].name, cmd |-> cmd, a1 |-> a1, a2 |-> a2, res |-> res]

\* a method call of a node, noted in the log
Called(x, n, method) ==
    IF x.res # "ok" THEN x
    ELSE [x EXCEPT !.log = Append(@, Event(x, "call", n, method, "", <<>>, "ok"))]

\* a request that is sent again when the exchange broke
TransportRetry(x, kind, n, cmd, a1, a2, answer) ==
    IF x.res # "ok" THEN x
    ELSE IF x.nodes[ChassisOf(x.nodes, n)].api # "connected"
    THEN [x EXCEPT !.log = Append(@, Event(x, kind, n, cmd, a1, a2, "ProtocolError")),
                   !.res = "ProtocolError", !.fuel = 0]
    ELSE IF x.fuel = 1
    THEN [x EXCEPT !.log = @ \o <<Event(x, kind, n, cmd, a1, a2, "ProtocolError"),
                                  Event(x, kind, n, cmd, a1, a2, answer)>>,
                   !.fuel = 0]
    ELSE [x EXCEPT !.log = Append(@, Event(x, kind, n, cmd, a1, a2, answer)),
                   !.fuel = IF @ > 1 THEN @ - 1 ELSE 0]

\* one request over the chassis transport: it fails when the transport is
\* closed or the exchange breaks
Transport(x, kind, n, cmd, a1, a2, answer) ==
    IF x.res # "ok" THEN x
    ELSE IF x.nodes[ChassisOf(x.nodes, n)].api # "connected" \/ x.fuel = 1
    THEN [x EXCEPT !.log = Append(@, Event(x, kind, n, cmd, a1, a2, "ProtocolError")),
                   !.res = "ProtocolError", !.fuel = 0]
    ELSE [x EXCEPT !.log = Append(@, Event(x, kind, n, cmd, a1, a2, answer)),
                   !.fuel = IF @ > 1 THEN @ - 1 ELSE 0]

\* send_command(cmd, *args)
SendCommand(x, n, cmd, a1, a2) == Transport(x, "cmd", n, cmd, a1, a2, "ok")

\* get_attribute(name) / get_attributes(prefix): the query; the caller
\* reads the value from the hardware
GetAttribute(x, n, attr) == Transport(x, "query", n, attr, "?", <<>>, "ok")

\* the hardware location a port node addresses: its chassis and its index
Location(ns, p) == Format2(ns[ChassisOf(ns, p)].name, ns[p].index)

\* XenaPort.reserve(force)
PortReserve(x, p, force) ==
    LET loc == Location(x.nodes, p)
        y == SendCommand(x, p, "p_reservation", "reserve", <<>>)
    IN  IF x.res # "ok" \/ y.res # "ok" THEN y
        ELSE IF x.owner[loc] = "other" /\ ~force
        THEN [x EXCEPT !.log = Append(@, Event(x, "cmd", p, "p_reservation",
                                               "reserve", <<>>, "ReservationConflict")),
                       !.res = "ReservationConflict"]
        ELSE [y EXCEPT !.owner[loc] = "me", !.reserved = @ \cup {loc}]

\* XenaPort.release()
PortRelease(x, p) ==
    LET loc == Location(x.nodes, p)
        y == SendCommand(x, p, "p_reservation", "release", <<>>)
    IN  IF x.res # "ok" \/ y.res # "ok" THEN y
        ELSE [y EXCEPT !.owner[loc] = IF @ = "me" THEN "none" ELSE @]

\* XenaPort.reset()
PortReset(x, p) == SendCommand(x, p, "p_reset", "", <<>>)

\* XenaPort.clear_stats()
PortClearStats(x, p) == SendCommand(x, p, "p_clear", "", <<>>)

\* XenaPort.inventory()
PortInventory(x, p) == GetAttribute(x, p, "p_info")

\* what the hardware answers to the inventory queries

\* c_info's c_portcounts: the counts, space separated
HwPortCounts(ip) ==
    Join([i \in 1..Len(PortCounts(ip)) |-> IntToStr(PortCounts(ip)[i])], " ")

\* m_portcount of module m
HwModulePortCount(ip, m) == IntToStr(PortCounts(ip)[m + 1])

\* m_cfpconfig of module m: the port count, then the port speed
HwCfpConfig(ip, m) == IntToStr(PortCounts(ip)[m + 1]) \o <<" ", "4", "0">>

\* sub in s
Contains(s, sub) ==
    \E i \in 1..(Len(s) - Len(sub) + 1) : SubSeq(s, i, i + Len(sub) - 1) = sub

\* --------------------------------------- XenaSession and XenaChassis

\* XenaChassis.__init__: the node, the connected transport, the heartbeat
ChassisInit(x, ip) ==
    LET ns == NewNode(x.nodes, "chassis", <<>>, Session, ip)
        y == [x EXCEPT !.nodes = ns]
        c == Len(ns)
    IN  [y EXCEPT !.log = @ \o <<Event(y, "io", c, "connect", "", <<>>, "ok"),
                                 Event(y, "io", c, "keep_alive", "start", <<>>, "ok")>>]

\* logon with the owner sent before the password
LogonOwnerFirst(x, c, password, sessionOwner) ==
    SendCommand(SendCommand(x, c, "c_owner", "", Quote(sessionOwner)),
                c, "c_logon", "", Quote(password))

\* XenaChassis.logon
Logon(x, c, password, sessionOwner) ==
    SendCommand(SendCommand(x, c, "c_logon", "", Quote(password)),
                c, "c_owner", "", Quote(sessionOwner))

\* add_chassis without the test of chassis_list
AddChassisUnchecked(x, ip) ==
    LET y == ChassisInit(x, ip)
    IN  Logon(y, Len(y.nodes), Password, SessionOwner)

\* XenaSession.add_chassis
AddChassis(x, ip) ==
    IF ip \notin ChassisNames(x.nodes)
    THEN LET y == ChassisInit(x, ip)
         IN  Logon(y, Len(y.nodes), Password, SessionOwner)
    ELSE x

RECURSIVE ModulePorts(_, _, _, _)
\* XenaModule.inventory, the loop over range(m_portcount)
ModulePorts(x, m, p_index, m_portcount) ==
    IF x.res # "ok" \/ p_index >= m_portcount THEN x
    ELSE LET index == Format2(x.nodes[m].index, IntToStr(p_index))
             ns == NewNode(x.nodes, "port", index, m, NodeName(x.nodes, m, index))
         IN  ModulePorts(PortInventory([x EXCEPT !.nodes = ns], Len(ns)),
                         m, p_index + 1, m_portcount)

\* XenaModule.inventory
ModuleInventory(x, m) ==
    LET ip == x.nodes[ChassisOf(x.nodes, m)].name
        mi == StrToInt(x.nodes[m].index)
        y == GetAttribute(x, m, "m_info")
    IN  IF Contains(CfpType(ip, mi), <<"N", "O", "T", "C", "F", "P">>)
        THEN ModulePorts(GetAttribute(y, m, "m_portcount"), m, 0,
                         StrToInt(HwModulePortCount(ip, mi)))
        ELSE ModulePorts(GetAttribute(y, m, "m_cfpconfig"), m, 0,
                         StrToInt(Split(HwCfpConfig(ip, mi), " ")[1]))

RECURSIVE ChassisModulesAll(_, _, _, _)
\* inventory that builds a module for every position, empty or not
ChassisModulesAll(x, c, m_index, counts) ==
    IF x.res # "ok" \/ m_index >= Len(counts) THEN x
    ELSE LET index == IntToStr(m_index)
             ns == NewNode(x.nodes, "module", index, c, NodeName(x.nodes, c, index))
         IN  ChassisModulesAll(ModuleInventory([x EXCEPT !.nodes = ns], Len(ns)),
                               c, m_index + 1, counts)

RECURSIVE ChassisModules(_, _, _, _)
\* XenaChassis.inventory, the loop over enumerate(c_portcounts.split())
ChassisModules(x, c, m_index, counts) ==
    IF x.res # "ok" \/ m_index >= Len(counts) THEN x
    ELSE IF StrToInt(counts[m_index + 1]) # 0
    THEN LET index == IntToStr(m_index)
             ns == NewNode(x.nodes, "module", index, c, NodeName(x.nodes, c, index))
         IN  ChassisModules(ModuleInventory([x EXCEPT !.nodes = ns], Len(ns)),
                            c, m_index + 1, counts)
    ELSE ChassisModules(x, c, m_index + 1, counts)

\* XenaChassis.inventory
ChassisInventory(x, c) ==
    ChassisModules(GetAttribute(x, c, "c_info"), c, 0,
                   Split(HwPortCounts(x.nodes[c].name), " "))

RECURSIVE InventoryAll(_, _)
InventoryAll(x, cs) ==
    IF x.res # "ok" \/ Len(cs) = 0 THEN x
    ELSE InventoryAll(ChassisInventory(x, cs[1]), Tail(cs))

\* XenaSession.inventory
SessionInventory(x) ==
    InventoryAll(x, GetObjectsByType(x.nodes, Session, "chassis"))

RECURSIVE ChassisReservePortsNoReset(_, _, _, _)
\* reserve_ports that leaves the port as its last owner configured it
ChassisReservePortsNoReset(x, c, locations, force) ==
    IF x.res # "ok" \/ Len(locations) = 0 THEN x
    ELSE LET ns == NewNode(x.nodes, "port", locations[1], c,
                           NodeName(x.nodes, c, locations[1]))
         IN  ChassisReservePortsNoReset(
                 PortReserve([x EXCEPT !.nodes = ns], Len(ns), force),
                 c, Tail(locations), force)

RECURSIVE ChassisReservePorts(_, _, _, _)
\* XenaChassis.reserve_ports
ChassisReservePorts(x, c, locations, force) ==
    IF x.res # "ok" \/ Len(locations) = 0 THEN x
    ELSE LET ns == NewNode(x.nodes, "port", locations[1], c,
                           NodeName(x.nodes, c, locations[1]))
             port == Len(ns)
             y == PortReserve([x EXCEPT !.nodes = ns], port, force)
         IN  ChassisReservePorts(PortReset(y, port), c, Tail(locations), force)

RECURSIVE SessionReservePortsNoForce(_, _, _)
\* reserve_ports that does not hand force on to the chassis
SessionReservePortsNoForce(x, locations, force) ==
    IF x.res # "ok" \/ Len(locations) = 0 THEN x
    ELSE LET parts == Split(locations[1], "/")
             c == ChassisByIp(x.nodes, parts[1])
         IN  IF Len(parts) # 3 THEN [x EXCEPT !.res = "ValueError"]
             ELSE IF c = 0 THEN [x EXCEPT !.res = "KeyError"]
             ELSE SessionReservePortsNoForce(
                      ChassisReservePorts(x, c, <<Format2(parts[2], parts[3])>>, FALSE),
                      Tail(locations), force)

RECURSIVE SessionReservePortsGoesOn(_, _, _)
\* reserve_ports that goes on with the next location after a failure and
\* raises the first error at the end
SessionReservePortsGoesOn(x, locations, force) ==
    IF Len(locations) = 0 THEN x
    ELSE LET parts == Split(locations[1], "/")
             c == ChassisByIp(x.nodes, parts[1])
             y == IF c = 0 THEN [x EXCEPT !.res = "KeyError"]
                  ELSE ChassisReservePorts(x, c, <<Format2(parts[2], parts[3])>>, force)
             z == SessionReservePortsGoesOn([y EXCEPT !.res = "ok"],
                                            Tail(locations), force)
         IN  IF y.res # "ok" THEN [z EXCEPT !.res = y.res] ELSE z

RECURSIVE SessionReservePorts(_, _, _)
\* XenaSession.reserve_ports
SessionReservePorts(x, locations, force) ==
    IF x.res # "ok" \/ Len(locations) = 0 THEN x
    ELSE LET parts == Split(locations[1], "/")
             c == ChassisByIp(x.nodes, parts[1])
         IN  IF Len(parts) # 3 THEN [x EXCEPT !.res = "ValueError"]
             ELSE IF c = 0 THEN [x EXCEPT !.res = "KeyError"]
             ELSE SessionReservePorts(
                      ChassisReservePorts(x, c, <<Format2(parts[2], parts[3])>>, force),
                      Tail(locations), force)

RECURSIVE ReleaseEach(_, _)
ReleaseEach(x, ports) ==
    IF x.res # "ok" \/ Len(ports) = 0 THEN x
    ELSE ReleaseEach(PortRelease(x, ports[1]), Tail(ports))

\* XenaChassis.release_ports
ChassisReleasePorts(x, c) ==
    ReleaseEach(Called(x, c, "release_ports"), ChassisPorts(x.nodes, c))

RECURSIVE ReleaseAll(_, _)
ReleaseAll(x, groups) ==
    IF x.res # "ok" \/ Len(groups) = 0 THEN x
    ELSE ReleaseAll(ChassisReleasePorts(x, groups[1].chassis), Tail(groups))

\* XenaSession.release_ports
SessionReleasePorts(x) ==
    ReleaseAll(x, PerChassisPorts(x.nodes, SessionOperationPorts(x.nodes, <<>>)))

RECURSIVE ClearEach(_, _)
ClearEach(x, ports) ==
    IF x.res # "ok" \/ Len(ports) = 0 THEN x
    ELSE ClearEach(PortClearStats(x, ports[1]), Tail(ports))

\* XenaChassis.clear_stats
ChassisClearStats(x, c, ports) == ClearEach(Called(x, c, "clear_stats"), ports)

RECURSIVE ClearAll(_, _)
ClearAll(x, groups) ==
    IF x.res # "ok" \/ Len(groups) = 0 THEN x
    ELSE ClearAll(ChassisClearStats(x, groups[1].chassis, groups[1].ports),
                  Tail(groups))

\* clear_stats that leaves its loop after the first chassis
SessionClearStatsFirstChassis(x, ports) ==
    LET groups == PerChassisPorts(x.nodes, SessionOperationPorts(x.nodes, ports))
    IN  ClearAll(x, SubSeq(groups, 1, IF Len(groups) > 0 THEN 1 ELSE 0))

\* XenaSession.clear_stats
SessionClearStats(x, ports) ==
    ClearAll(x, PerChassisPorts(x.nodes, SessionOperationPorts(x.nodes, ports)))

\* XenaChassis.disconnect
ChassisDisconnect(x, c) ==
    IF x.res # "ok" THEN x
    ELSE [x EXCEPT !.nodes[c].api = "disconnected",
                   !.log = Append(@, Event(x, "io", c, "disconnect", "", <<>>, "ok"))]

RECURSIVE DisconnectAll(_, _)
DisconnectAll(x, cs) ==
    IF x.res # "ok" \/ Len(cs) = 0 THEN x
    ELSE DisconnectAll(ChassisDisconnect(x, cs[1]), Tail(cs))

\* disconnect that closes only the chassis it released ports of
SessionDisconnectReleased(x) ==
    LET groups == PerChassisPorts(x.nodes, SessionOperationPorts(x.nodes, <<>>))
    IN  DisconnectAll(SessionReleasePorts(x),
                      [i \in 1..Len(groups) |-> groups[i].chassis])

\* XenaSession.disconnect
SessionDisconnect(x) ==
    DisconnectAll(SessionReleasePorts(x),
                  GetObjectsByType(x.nodes, Session, "chassis"))

\* ------------------------------------------------------- traffic, polling

\* the timeouts the chassis passes to wait_for_states
ShortTimeout == 40
LongTimeout == 2628000

\* the delay between two queries of wait_for_states
PollInterval == 1

\* ' '.join([p.ref.replace('/', ' ') for p in ports])
PortsStr(ns, ports) ==
    Join([i \in 1..Len(ports) |-> Replace(ns[ports[i]].index, "/", " ")], " ")

\* the locations of chassis ip a c_traffic argument names: its tokens, in pairs
TrafficLocations(ip, ports_str) ==
    LET tokens == IF Len(ports_str) = 0 THEN <<>> ELSE Split(ports_str, " ")
    IN  { Format2(ip, Format2(tokens[2 * k - 1], tokens[2 * k])) :
            k \in 1..(Len(tokens) \div 2) }

Idle == [pc |-> "idle", command |-> "", groups |-> <<>>, ci |-> 0, pi |-> 0,
         elapsed |-> 0, polls |-> 0]

\* the record an operation starts from
Enter(f) == [nodes |-> nodes, owner |-> owner, reserved |-> reserved,
             target |-> target,
             log |-> <<>>, res |-> "ok", fuel |-> f]

\* XenaChassis._traffic_command, up to its polling loop: the command is
\* sent and the hardware is told the state to take
TrafficCommand(x, c, command, ports) ==
    LET ps == ChassisOperationPorts(x.nodes, c, ports)
        ports_str == PortsStr(x.nodes, ps)
        y == SendCommand(x, c, "c_traffic", command, ports_str)
        locs == TrafficLocations(x.nodes[c].name, ports_str) \cap HwLocations
    IN  IF y.res # "ok" THEN y
        ELSE [y EXCEPT !.target = [l \in HwLocations |->
                                      IF l \in locs THEN command ELSE @[l]]]

\* the log with a poll's query added; a query that repeats the last event
\* (same port, same answer) is not noted again
Noted(lg, ev) == IF Len(lg) > 0 /\ lg[Len(lg)] = ev THEN lg ELSE Append(lg, ev)


\* wait_for_states that gives up at the first answer that is not expected
WaitForStatesNoRetry(v, elapsed, timeout, states) ==
    IF v \in states THEN "return" ELSE "Timeout"

\* one iteration of XenaPort.wait_for_states(attribute, timeout, *states),
\* after its query answered v: return, raise Timeout, or sleep and query again
WaitForStates(v, elapsed, timeout, states) ==
    IF v \in states THEN "return"
    ELSE IF elapsed >= timeout THEN "Timeout"
    ELSE "sleep"

\* the record a running traffic operation goes on from
Resume(f) == [nodes |-> nodes, owner |-> owner, reserved |-> reserved,
              target |-> target,
              log |-> log, res |-> "ok", fuel |-> f]

\* the ports the running loop polls: those of _traffic_command, or those
\* given to wait_traffic
PolledPorts(pr) ==
    IF pr.pc = "confirm"
    THEN ChassisOperationPorts(nodes, pr.groups[pr.ci].chassis, pr.groups[pr.ci].ports)
    ELSE pr.groups[pr.ci].ports

\* a confirmation that takes any traffic state for the commanded one
PollStatesAny(pr) == IF pr.pc = "confirm" THEN {"on", "off"} ELSE {"off"}

\* _traffic_command polls for the commanded state, wait_traffic for 'off'
PollTimeout(pr) == IF pr.pc = "confirm" THEN ShortTimeout ELSE LongTimeout
PollStates(pr) == IF pr.pc = "confirm" THEN {pr.command} ELSE {"off"}

\* start_traffic that waits for the end of the run whatever blocking is
AfterPollAlwaysWaits(pr, blocking) ==
    IF pr.pi < Len(PolledPorts(pr))
    THEN [pr EXCEPT !.pi = @ + 1, !.elapsed = 0, !.polls = 0]
    ELSE IF pr.ci < Len(pr.groups)
    THEN [pr EXCEPT !.pc = IF pr.pc = "confirm" THEN "issue" ELSE "wait",
                    !.ci = @ + 1, !.pi = 1, !.elapsed = 0, !.polls = 0]
    ELSE IF pr.pc = "confirm" /\ pr.command = "on" /\ Len(pr.groups[1].ports) > 0
    THEN [pr EXCEPT !.pc = "wait", !.ci = 1, !.pi = 1, !.elapsed = 0, !.polls = 0]
    ELSE [pr EXCEPT !.pc = "idle"]

\* start_traffic whose second loop ends with the first chassis
AfterPollFirstChassis(pr, blocking) ==
    IF pr.pi < Len(PolledPorts(pr))
    THEN [pr EXCEPT !.pi = @ + 1, !.elapsed = 0, !.polls = 0]
    ELSE IF pr.ci < Len(pr.groups) /\ pr.pc = "confirm"
    THEN [pr EXCEPT !.pc = "issue",
                    !.ci = @ + 1, !.pi = 1, !.elapsed = 0, !.polls = 0]
    ELSE IF /\ pr.pc = "confirm" /\ pr.command = "on" /\ blocking
            /\ Len(pr.groups[1].ports) > 0
    THEN [pr EXCEPT !.pc = "wait", !.ci = 1, !.pi = 1, !.elapsed = 0, !.polls = 0]
    ELSE [pr EXCEPT !.pc = "idle"]

\* start_traffic that hands blocking on to each chassis: every chassis is
\* started and waited for before the next one is started
AfterPollWaitsPerChassis(pr, blocking) ==
    IF pr.pi < Len(PolledPorts(pr))
    THEN [pr EXCEPT !.pi = @ + 1, !.elapsed = 0, !.polls = 0]
    ELSE IF /\ pr.pc = "confirm" /\ pr.command = "on" /\ blocking
            /\ Len(pr.groups[pr.ci].ports) > 0
    THEN [pr EXCEPT !.pc = "wait", !.pi = 1, !.elapsed = 0, !.polls = 0]
    ELSE IF pr.ci < Len(pr.groups)
    THEN [pr EXCEPT !.pc = "issue",
                    !.ci = @ + 1, !.pi = 1, !.elapsed = 0, !.polls = 0]
    ELSE [pr EXCEPT !.pc = "idle"]

\* where a traffic operation goes on when wait_for_states returned for the
\* port it polled: the next port, the next chassis, the second loop of
\* XenaSession.start_traffic when blocking, or the end ("idle"); the loop
\* of wait_traffic over no port is over at once
AfterPoll(pr, blocking) ==
    IF pr.pi < Len(PolledPorts(pr))
    THEN [pr EXCEPT !.pi = @ + 1, !.elapsed = 0, !.polls = 0]
    ELSE IF pr.ci < Len(pr.groups)
    THEN [pr EXCEPT !.pc = IF pr.pc = "confirm" THEN "issue" ELSE "wait",
                    !.ci = @ + 1, !.pi = 1, !.elapsed = 0, !.polls = 0]
    ELSE IF /\ pr.pc = "confirm" /\ pr.command = "on" /\ blocking
            /\ Len(pr.groups[1].ports) > 0
    THEN [pr EXCEPT !.pc = "wait", !.ci = 1, !.pi = 1, !.elapsed = 0, !.polls = 0]
    ELSE [pr EXCEPT !.pc = "idle"]

\* ------------------------------------------- one chassis connection
\* XenaChassis.__init__ hands the one XenaSocket of the chassis to the
\* keep-alive thread, so the caller's thread and the keep-alive thread talk
\* over the same connection.  A request is written in two pieces, so that
\* a write of the other thread can fall between them.

Threads == {"app", "keep_alive"}

\* the connection after connect(): nothing written, nobody inside
Connected ==
    [lock |-> "free",
     pc |-> [t \in Threads |-> "idle"],
     done |-> [t \in Threads |-> 0],
     wire |-> <<>>, answered |-> 0, inbox |-> <<>>, got |-> <<>>]

\* a transport without the critical section
MayEnterUnlocked(s, t) == TRUE

\* the critical section of a transport call: one thread at a time
MayEnter(s, t) == s.lock = "free"

\* the piece of request number k of thread t
Piece(t, k, part) == [by |-> t, k |-> k, part |-> part]

\* ------------------------------------------------------------ the actions

\* the locations another owner holds when the session starts
Contended == { Format2(<<"a">>, <<"1", "/", "0">>) }

NoCall == [op |-> "none", arg |-> <<>>, flag |-> FALSE]

\* the caller is between two operations, and has not logged off
Ready == result = "idle" /\ \A i \in 1..Len(nodes) : nodes[i].api # "disconnected"

Init ==
    /\ nodes = <<>>
    /\ owner = [l \in HwLocations |-> IF l \in Contended THEN "other" ELSE "none"]
    /\ reserved = {}
    /\ traffic = [l \in HwLocations |-> "off"]
    /\ target = [l \in HwLocations |-> "none"]
    /\ log = <<>>
    /\ call = NoCall
    /\ result = "idle"
    /\ proc = Idle
    /\ sock = Connected

\* an atomic operation ends in the state x
Finish(x, op, arg, flag) ==
    /\ Len(x.nodes) <= MaxNodes
    /\ nodes' = x.nodes
    /\ owner' = x.owner
    /\ reserved' = x.reserved
    /\ target' = x.target
    /\ log' = x.log
    /\ result' = x.res
    /\ call' = [op |-> op, arg |-> arg, flag |-> flag]
    /\ proc' = Idle
    /\ UNCHANGED <<traffic, sock>>

\* session.add_chassis(ip)
DoAddChassis ==
    /\ Ready
    /\ \E ip \in Addresses, f \in 0..MaxFail :
          Finish(AddChassis(Enter(f), ip), "add_chassis", <<ip>>, FALSE)

\* session.inventory()
DoInventory ==
    /\ Ready
    /\ \E f \in 0..MaxFail :
          Finish(SessionInventory(Enter(f)), "inventory", <<>>, FALSE)

\* the location lists a caller passes to reserve_ports
LocationLists == UNION { [1..n -> HwLocations] : n \in 0..MaxLocations }

\* session.reserve_ports(locations, force)
DoReservePorts ==
    /\ Ready
    /\ \E locations \in LocationLists, force \in BOOLEAN, f \in 0..MaxFail :
          /\ Len(nodes) + Len(locations) <= MaxNodes
          /\ Finish(SessionReservePorts(Enter(f), locations, force),
                    "reserve_ports", locations, force)

\* session.release_ports()
DoReleasePorts ==
    /\ Ready
    /\ \E f \in 0..MaxFail :
          Finish(SessionReleasePorts(Enter(f)), "release_ports", <<>>, FALSE)

\* the port objects a caller passes to clear_stats, start_traffic, stop_traffic
PortIds == { i \in 1..Len(nodes) : nodes[i].kind = "port" }
PortLists == {<<>>} \cup { <<p>> : p \in PortIds }
                    \cup { t \in PortIds \X PortIds : t[1] # t[2] }

\* session.clear_stats(*ports)
DoClearStats ==
    /\ Ready
    /\ \E ports \in PortLists, f \in 0..MaxFail :
          Finish(SessionClearStats(Enter(f), ports), "clear_stats", ports, FALSE)

\* session.disconnect()
DoDisconnect ==
    /\ Ready
    /\ \E f \in 0..MaxFail :
          Finish(SessionDisconnect(Enter(f)), "disconnect", <<>>, FALSE)

\* session.start_traffic(blocking, *ports) and session.stop_traffic(*ports),
\* up to the first chassis of the first loop
BeginTraffic(op, command, blocking, ports) ==
    LET groups == PerChassisPorts(nodes, SessionOperationPorts(nodes, ports))
    IN  /\ Ready
        /\ call' = [op |-> op, arg |-> ports, flag |-> blocking]
        /\ log' = <<>>
        /\ result' = IF Len(groups) = 0 THEN "ok" ELSE "running"
        /\ proc' = IF Len(groups) = 0 THEN Idle
                   ELSE [Idle EXCEPT !.pc = "issue", !.command = command,
                                     !.groups = groups, !.ci = 1]
        /\ UNCHANGED <<nodes, owner, reserved, traffic, target, sock>>

DoStartTraffic(blocking, ports) == BeginTraffic("start_traffic", "on", blocking, ports)

DoStopTraffic(ports) == BeginTraffic("stop_traffic", "off", FALSE, ports)

\* chassis.start_traffic(blocking, *ports) and chassis.stop_traffic(*ports),
\* called on the chassis itself, up to _traffic_command
BeginChassisTraffic(op, command, blocking, c, ports) ==
    /\ Ready
    /\ call' = [op |-> op, arg |-> ports, flag |-> blocking]
    /\ log' = <<>>
    /\ result' = "running"
    /\ proc' = [Idle EXCEPT !.pc = "issue", !.command = command,
                            !.groups = <<[chassis |-> c, ports |-> ports]>>,
                            !.ci = 1]
    /\ UNCHANGED <<nodes, owner, reserved, traffic, target, sock>>

\* the port objects a caller passes to a traffic operation of chassis c
ChassisPortLists(c) ==
    { ports \in PortLists : \A i \in 1..Len(ports) : ChassisOf(nodes, ports[i]) = c }

DoChassisStartTraffic ==
    \E c \in ChassisIds(nodes), blocking \in BOOLEAN :
        \E ports \in ChassisPortLists(c) :
            BeginChassisTraffic("chassis.start_traffic", "on", blocking, c, ports)

DoChassisStopTraffic ==
    \E c \in ChassisIds(nodes) :
        \E ports \in ChassisPortLists(c) :
            BeginChassisTraffic("chassis.stop_traffic", "off", FALSE, c, ports)

\* a blocking start has confirmed its last port: wait_traffic is called
BlockingStart == proc.command = "on" /\ call.flag

\* chassis.start_traffic(False, *ports) / chassis.stop_traffic(*ports):
\* _traffic_command sends c_traffic
IssueTraffic ==
    /\ result = "running" /\ proc.pc = "issue"
    /\ \E f \in 0..1 :
          LET g == proc.groups[proc.ci]
              x == TrafficCommand(
                       Called(Resume(f), g.chassis,
                              IF proc.command = "on" THEN "start_traffic"
                              ELSE "stop_traffic"),
                       g.chassis, proc.command, g.ports)
              confirm == [proc EXCEPT !.pc = "confirm", !.pi = 1,
                                      !.elapsed = 0, !.polls = 0]
              next == IF Len(PolledPorts(confirm)) > 0 THEN confirm
                      ELSE AfterPoll([confirm EXCEPT !.pi = 0], call.flag)
          IN  /\ log' = IF x.res = "ok" /\ next.pc = "idle" /\ BlockingStart
                        THEN Called(x, g.chassis, "wait_traffic").log
                        ELSE x.log
              /\ target' = x.target
              /\ result' = IF x.res # "ok" THEN x.res
                           ELSE IF next.pc = "idle" THEN "ok" ELSE "running"
              /\ proc' = IF x.res = "ok" THEN next ELSE proc
    /\ UNCHANGED <<nodes, owner, reserved, traffic, call, sock>>

\* one iteration of the wait_for_states a traffic operation is in
Poll ==
    /\ result = "running" /\ proc.pc \in {"confirm", "wait"}
    /\ \E f \in 0..1 :
          LET p == PolledPorts(proc)[proc.pi]
              v == traffic[Location(nodes, p)]
              T == PollTimeout(proc)
              x == Transport(Resume(f), "query", p, "p_traffic",
                             CHOOSE e \in PollStates(proc) : TRUE, IntToStr(T), v)
              what == WaitForStates(v, proc.elapsed, T, PollStates(proc))
              lg == Noted(log, x.log[Len(x.log)])
              next == AfterPoll(proc, call.flag)
          IN  /\ \/ /\ x.res # "ok"
                    /\ result' = x.res
                    /\ proc' = proc
                    /\ log' = lg
                 \/ /\ x.res = "ok" /\ what = "return"
                    /\ proc' = next
                    /\ result' = IF next.pc = "idle" THEN "ok" ELSE "running"
                    /\ log' = IF next.pc = "wait" /\ (proc.pc # "wait" \/ next.ci # proc.ci)
                              THEN Called([x EXCEPT !.log = lg],
                                          next.groups[next.ci].chassis, "wait_traffic").log
                              ELSE IF /\ next.pc = "idle" /\ proc.pc = "confirm"
                                      /\ BlockingStart
                              THEN Called([x EXCEPT !.log = lg],
                                          proc.groups[proc.ci].chassis, "wait_traffic").log
                              ELSE lg
                 \/ /\ x.res = "ok" /\ what = "Timeout"
                    /\ result' = "Timeout"
                    /\ proc' = proc
                    /\ log' = lg
                 \/ /\ x.res = "ok" /\ what = "sleep" /\ proc.polls < MaxPolls
                    /\ result' = result
                    /\ log' = lg
                    /\ proc' = [proc EXCEPT !.elapsed = @ + PollInterval,
                                            !.polls = @ + 1]
                 \/ \* the polls left until the deadline, when all answer alike
                    /\ x.res = "ok" /\ what = "sleep"
                    /\ result' = result
                    /\ log' = lg
                    /\ proc' = [proc EXCEPT !.elapsed = T]
    /\ UNCHANGED <<nodes, owner, reserved, traffic, target, call, sock>>

\* the operation has returned (or raised) and the caller goes on
Return ==
    /\ result \notin {"idle", "running"}
    /\ result' = "idle"
    /\ call' = NoCall
    /\ log' = <<>>
    /\ proc' = Idle
    /\ UNCHANGED <<nodes, owner, reserved, traffic, target, sock>>

\* the hardware takes the traffic state it was commanded to
HwApply(l) ==
    /\ target[l] # "none"
    /\ traffic' = [traffic EXCEPT ![l] = target[l]]
    /\ target' = [target EXCEPT ![l] = "none"]
    /\ UNCHANGED <<nodes, owner, reserved, log, call, result, proc, sock>>

\* a traffic run ends by itself
HwSelfStop(l) ==
    /\ traffic[l] = "on" /\ target[l] = "none"
    /\ traffic' = [traffic EXCEPT ![l] = "off"]
    /\ UNCHANGED <<nodes, owner, reserved, target, log, call, result, proc, sock>>

\* the session's operations on the tree and on the reservations
Next ==
    \/ DoAddChassis
    \/ DoInventory
    \/ DoReservePorts
    \/ DoReleasePorts
    \/ DoClearStats
    \/ DoDisconnect
    \/ Return

Spec == Init /\ [][Next]_vars

\* A chassis connection: the caller's thread sends its commands, the
\* keep-alive thread its heartbeats, and the chassis answers each request
\* it has received whole, in the order received.

\* a thread begins a transport call (send_command / get_attribute, or the
\* periodic heartbeat)
BeginCall(t) ==
    /\ sock.pc[t] = "idle" /\ sock.done[t] < MaxRequests
    /\ MayEnter(sock, t)
    /\ sock' = [sock EXCEPT !.lock = t, !.pc[t] = "head"]

\* it writes the first piece of the request
WriteHead(t) ==
    /\ sock.pc[t] = "head"
    /\ sock' = [sock EXCEPT !.wire = Append(@, Piece(t, sock.done[t] + 1, "head")),
                            !.pc[t] = "tail"]

\* it writes the rest of the request
WriteTail(t) ==
    /\ sock.pc[t] = "tail"
    /\ sock' = [sock EXCEPT !.wire = Append(@, Piece(t, sock.done[t] + 1, "tail")),
                            !.pc[t] = "read"]

\* the chassis answers the next two pieces it received: the request they
\* form, or a syntax error when they are not one request
ChassisAnswer ==
    LET h == sock.wire[2 * sock.answered + 1]
        l == sock.wire[2 * sock.answered + 2]
    IN  /\ Len(sock.wire) >= 2 * sock.answered + 2
        /\ sock' = [sock EXCEPT
                       !.answered = @ + 1,
                       !.inbox = Append(@, IF l = [h EXCEPT !.part = "tail"]
                                              /\ h.part = "head"
                                           THEN [to |-> h.by, k |-> h.k]
                                           ELSE [to |-> "nobody", k |-> 0])]

\* the thread reads the next response from the connection
Read(t) ==
    /\ sock.pc[t] = "read" /\ Len(sock.inbox) > 0
    /\ sock' = [sock EXCEPT !.inbox = Tail(@),
                            !.got = Append(@, [reader |-> t, k |-> sock.done[t] + 1,
                                               response |-> Head(sock.inbox)]),
                            !.pc[t] = "leave"]

\* the transport call returns
Leave(t) ==
    /\ sock.pc[t] = "leave"
    /\ sock' = [sock EXCEPT !.lock = IF @ = t THEN "free" ELSE @,
                            !.pc[t] = "idle", !.done[t] = @ + 1]

TransportNext ==
    /\ \/ \E t \in Threads : BeginCall(t)
       \/ \E t \in Threads : WriteHead(t)
       \/ \E t \in Threads : WriteTail(t)
       \/ ChassisAnswer
       \/ \E t \in Threads : Read(t)
       \/ \E t \in Threads : Leave(t)
    /\ UNCHANGED <<nodes, owner, reserved, traffic, target, log, call, result, proc>>

TransportSpec == Init /\ [][TransportNext]_vars

\* The traffic operations run on a session that has logged on to both
\* chassis and reserved some ports, against hardware that starts and ends
\* traffic runs while the session polls.

RECURSIVE AddAll(_, _)
AddAll(x, ips) ==
    IF Len(ips) = 0 THEN x ELSE AddAll(AddChassis(x, ips[1]), Tail(ips))

\* the session after add_chassis of both chassis and reserve_ports(locations, True)
Prepared(locations) ==
    SessionReservePorts(
        AddAll([nodes |-> <<>>, owner |-> [l \in HwLocations |-> "none"],
                reserved |-> {},
                target |-> [l \in HwLocations |-> "none"],
                log |-> <<>>, res |-> "ok", fuel |-> 0],
               <<<<"a">>, <<"b">>>>),
        locations, TRUE)

RECURSIVE ListOf(_)
\* the locations of a set, as a list
ListOf(R) ==
    IF R = {} THEN <<>>
    ELSE LET l == CHOOSE l \in R : TRUE IN <<l>> \o ListOf(R \ {l})

TrafficInit ==
    /\ \E R \in { R \in SUBSET HwLocations : Cardinality(R) <= MaxLocations } :
          /\ nodes = Prepared(ListOf(R)).nodes
          /\ owner = Prepared(ListOf(R)).owner
          /\ reserved = Prepared(ListOf(R)).reserved
    /\ traffic = [l \in HwLocations |-> "off"]
    /\ target = [l \in HwLocations |-> "none"]
    /\ log = <<>>
    /\ call = NoCall
    /\ result = "idle"
    /\ proc = Idle
    /\ sock = Connected

TrafficNext ==
    \/ \E blocking \in BOOLEAN, ports \in PortLists : DoStartTraffic(blocking, ports)
    \/ \E ports \in PortLists : DoStopTraffic(ports)
    \/ DoChassisStartTraffic
    \/ DoChassisStopTraffic
    \/ IssueTraffic
    \/ Poll
    \/ Return
    \/ \E l \in HwLocations : HwApply(l)
    \/ \E l \in HwLocations : HwSelfStop(l)

TrafficSpec == TrafficInit /\ [][TrafficNext]_vars

\* The prepared session with the session's traffic operations and, between
\* them, release_ports and clear_stats.
OperationsNext ==
    \/ \E blocking \in BOOLEAN, ports \in PortLists : DoStartTraffic(blocking, ports)
    \/ \E ports \in PortLists : DoStopTraffic(ports)
    \/ IssueTraffic
    \/ Poll
    \/ DoReleasePorts
    \/ DoClearStats
    \/ Return
    \/ \E l \in HwLocations : HwApply(l)
    \/ \E l \in HwLocations : HwSelfStop(l)

OperationsSpec == TrafficInit /\ [][OperationsNext]_vars

\* -------------------------------------------------------------- the claims

\* the events of the log that are the command cmd with first argument a1
IsCmd(e, cmd, a1) == e.kind = "cmd" /\ e.cmd = cmd /\ e.a1 = a1

\* no two chassis nodes of the session have the same address
OneChassisPerAddress ==
    \A i, j \in 1..Len(nodes) :
        (/\ nodes[i].kind = "chassis" /\ nodes[j].kind = "chassis"
         /\ nodes[i].name = nodes[j].name) => i = j

\* C1: add_chassis(a) on an address the session already has a chassis for
\* creates no node, opens no transport and sends no command (the tree and
\* every transport are as before and nothing is logged), and the session
\* never holds two chassis nodes of one address.
C1_AddChassisIdempotent ==
    [][ /\ OneChassisPerAddress'
        /\ (/\ result = "idle" /\ call'.op = "add_chassis"
            /\ call'.arg[1] \in ChassisNames(nodes))
           => (nodes' = nodes /\ log' = <<>> /\ result' = "ok") ]_vars

\* add_chassis was called on a known address and returned
C1_Witness ==
    /\ call.op = "add_chassis" /\ result = "ok" /\ log = <<>>
    /\ call.arg[1] \in ChassisNames(nodes)

\* the ports a session traffic operation is about: those given, or all
Affected == { SessionOperationPorts(nodes, call.arg)[k] :
                k \in 1..Len(SessionOperationPorts(nodes, call.arg)) }

\* C2 as stated: a non-blocking start_traffic queries no attribute between
\* its call and its return.
C2_NoPolling ==
    (call.op = "start_traffic" /\ ~call.flag)
    => \A i \in 1..Len(log) : log[i].kind # "query"

\* port p was sent the traffic command by event i of the log
Commanded(i, p, command) ==
    /\ IsCmd(log[i], "c_traffic", command) /\ log[i].res = "ok"
    /\ log[i].ch = nodes[ChassisOf(nodes, p)].name
    /\ Location(nodes, p) \in TrafficLocations(log[i].ch, log[i].a2)

\* a query of event j found port p in traffic state v
Observed(j, p, v) ==
    /\ log[j].kind = "query" /\ log[j].cmd = "p_traffic"
    /\ log[j].obj = nodes[p].name /\ log[j].res = v

\* C2 (amended): a non-blocking start_traffic polls only for the
\* confirmation of the commanded state "on", with the short timeout; it
\* makes no wait_traffic call and no poll for "off"; when it returns, every
\* affected port was commanded on and then seen "on".
C2_NoCompletionWait ==
    (call.op = "start_traffic" /\ ~call.flag)
    => /\ \A i \in 1..Len(log) :
            /\ log[i].kind = "query"
               => log[i].a1 = "on" /\ log[i].a2 = IntToStr(ShortTimeout)
            /\ ~(log[i].kind = "call" /\ log[i].cmd = "wait_traffic")
       /\ result = "ok"
          => \A p \in Affected :
                \E i, j \in 1..Len(log) :
                    i < j /\ Commanded(i, p, "on") /\ Observed(j, p, "on")

\* a non-blocking start_traffic returned after polling
C2_Witness ==
    /\ call.op = "start_traffic" /\ ~call.flag /\ result = "ok"
    /\ \E i \in 1..Len(log) : log[i].kind = "query"

\* every affected port was seen "off" after its chassis was commanded on
AllObservedOff ==
    \A p \in Affected :
        \E i, j \in 1..Len(log) :
            i < j /\ Commanded(i, p, "on") /\ Observed(j, p, "off")

\* C3 as stated: a blocking start_traffic ends either normally, with every
\* affected port seen "off" after the on-command, or by raising Timeout.
C3_OffOrTimeoutOnly ==
    (call.op = "start_traffic" /\ call.flag /\ result \notin {"idle", "running"})
    => \/ result = "Timeout"
       \/ result = "ok" /\ AllObservedOff

\* C3 (amended): a blocking start_traffic ends either normally, with every
\* affected port seen "off" after the on-command, or by raising Timeout,
\* or by the ProtocolError of a command or query that failed.
C3_OffOrError ==
    (call.op = "start_traffic" /\ call.flag /\ result \notin {"idle", "running"})
    => \/ result \in {"Timeout", "ProtocolError"}
       \/ result = "ok" /\ AllObservedOff

\* a blocking start_traffic on ports of two chassis returned
C3_Witness ==
    /\ call.op = "start_traffic" /\ call.flag /\ result = "ok"
    /\ Len(proc.groups) = 2 /\ Cardinality(Affected) = 2

\* the last query of a log
LastQuery(lg) ==
    lg[CHOOSE i \in 1..Len(lg) :
           lg[i].kind = "query" /\ \A j \in (i + 1)..Len(lg) : lg[j].kind # "query"]

\* C8: a wait_for_states returns only on a query that found the attribute
\* at an expected value (which it then has); it raises Timeout only when
\* the time waited has reached the timeout and the attribute is not at an
\* expected value; and while the attribute is not at an expected value the
\* wait neither returns nor gives up before the timeout.
C8_PollBound ==
    [][ (/\ result = "running" /\ proc.pc \in {"confirm", "wait"}
         /\ (proc' # proc \/ result' # result))
        => LET p == PolledPorts(proc)[proc.pi]
               v == traffic[Location(nodes, p)]
               returned == result' \in {"running", "ok"} /\
                           (proc'.pi # proc.pi \/ proc'.ci # proc.ci \/
                            proc'.pc # proc.pc)
           IN  /\ returned
                  => /\ v \in PollStates(proc)
                     /\ LastQuery(log').obj = nodes[p].name
                     /\ LastQuery(log').res \in PollStates(proc)
               /\ result' = "Timeout"
                  => /\ proc.elapsed >= PollTimeout(proc)
                     /\ v \notin PollStates(proc)
                     /\ LastQuery(log').res \notin PollStates(proc)
               /\ (v \notin PollStates(proc) /\ proc.elapsed < PollTimeout(proc))
                  => \/ result' = "ProtocolError"
                     \/ result' = "running" /\ proc'.elapsed > proc.elapsed
                                            /\ proc'.pi = proc.pi
                                            /\ proc'.ci = proc.ci
                                            /\ proc'.pc = proc.pc ]_vars

\* a run-to-completion wait timed out at its deadline
C8_Witness ==
    /\ result = "Timeout" /\ proc.pc = "wait" /\ proc.elapsed = LongTimeout

\* event i of the log is a release (a reserve) command sent for a port
Release(i) == IsCmd(log[i], "p_reservation", "release")
Reserve(i) == IsCmd(log[i], "p_reservation", "reserve")

\* release_ports reached every chassis that has a reserved port with one
\* call, and every reserved port with one release command
ReleaseReachesReserved ==
    /\ \A l \in reserved :
          Cardinality({ i \in 1..Len(log) :
                          /\ log[i].kind = "call" /\ log[i].cmd = "release_ports"
                          /\ log[i].obj = Split(l, "/")[1] }) = 1
    /\ \A l \in reserved :
          Cardinality({ i \in 1..Len(log) : Release(i) /\ log[i].obj = l }) = 1

\* release_ports sent a release command to no port the session never reserved
ReleaseOnlyReserved ==
    \A i \in 1..Len(log) : Release(i) => log[i].obj \in reserved

\* the ports the session reserved are spread over several chassis
ReservedOnSeveralChassis ==
    \E l, m \in reserved : Split(l, "/")[1] # Split(m, "/")[1]

\* C4: after release_ports() returned on a session that reserved ports on
\* several chassis, every chassis owning a port the session reserved
\* received exactly one release call, every reserved port exactly one
\* release command, and the calls cover the reserved ports only.
C4_ReleaseComplete ==
    (call.op = "release_ports" /\ result = "ok" /\ ReservedOnSeveralChassis)
    => (ReleaseReachesReserved /\ ReleaseOnlyReserved)

\* C5: release_ports() sends a release command to no port node the session
\* never reserved.
C5_ReleaseFrame ==
    call.op = "release_ports" => ReleaseOnlyReserved

\* the last call event before event i of the log
CallBefore(i) ==
    log[CHOOSE k \in 1..i :
            log[k].kind = "call" /\ \A j \in (k + 1)..i : log[j].kind # "call"]

\* C6: clear_stats() without ports sends the stat-clear command exactly once
\* for every port of the tree, inside the clear_stats call of the chassis
\* that owns the port, calls no chassis twice, and queries nothing.
C6_ClearStatsAll ==
    (call.op = "clear_stats" /\ call.arg = <<>> /\ result = "ok")
    => /\ \A p \in PortIds :
            Cardinality({ i \in 1..Len(log) :
                            IsCmd(log[i], "p_clear", "") /\ log[i].obj = nodes[p].name }) = 1
       /\ \A i \in 1..Len(log) :
            /\ log[i].kind \in {"call", "cmd"}
            /\ log[i].kind = "cmd"
               => /\ IsCmd(log[i], "p_clear", "")
                  /\ \E k \in 1..i : log[k].kind = "call"
                  /\ CallBefore(i).cmd = "clear_stats"
                  /\ CallBefore(i).obj = log[i].ch
            /\ log[i].kind = "call"
               => \A j \in 1..Len(log) :
                     (log[j].kind = "call" /\ log[j].obj = log[i].obj) => j = i

\* clear_stats() cleared ports of two chassis
C6_Witness ==
    /\ call.op = "clear_stats" /\ call.arg = <<>> /\ result = "ok"
    /\ \E i, j \in 1..Len(log) :
          /\ IsCmd(log[i], "p_clear", "") /\ IsCmd(log[j], "p_clear", "")
          /\ log[i].ch # log[j].ch

\* the locations a reserve command of the log was answered ok for
ReservedNow(lg) ==
    { lg[i].obj : i \in { k \in 1..Len(lg) :
                            IsCmd(lg[k], "p_reservation", "reserve") /\ lg[k].res = "ok" } }

\* C7: in a reserve_ports call, a port another owner holds is refused with
\* ReservationConflict when force is false, and stays the other owner's;
\* with force true no reserve is refused and the port becomes the
\* session's; a call that returns leaves every requested port the session's.
C7_ReservationSafety ==
    [][ (result = "idle" /\ call'.op = "reserve_ports")
        => /\ result' = "ReservationConflict"
              => /\ ~call'.flag
                 /\ owner[log'[Len(log')].obj] = "other"
           /\ call'.flag => result' # "ReservationConflict"
           /\ \A l \in HwLocations :
                 /\ (owner[l] = "other" /\ ~call'.flag)
                    => /\ owner'[l] = "other"
                       /\ (\E i \in 1..Len(log') : IsCmd(log'[i], "p_reservation", "reserve")
                                                   /\ log'[i].obj = l)
                          => result' \in {"ReservationConflict", "ProtocolError"}
                 /\ l \in ReservedNow(log') => owner'[l] = "me"
                 /\ l \notin ReservedNow(log') => owner'[l] = owner[l]
           /\ result' = "ok"
              => \A k \in 1..Len(call'.arg) : owner'[call'.arg[k]] = "me" ]_vars

\* a forced reserve_ports, the first reservation of the session, took the
\* port another owner held
C7_Witness ==
    /\ call.op = "reserve_ports" /\ call.flag /\ result = "ok"
    /\ \E k \in 1..Len(call.arg) : call.arg[k] \in Contended
    /\ Cardinality(PortIds) = Len(call.arg)
    /\ \A l \in Contended : owner[l] = "me"

\* every port that inventory created is named <chassis>/<module>/<port>
PortNamesAddress ==
    \A p \in PortIds :
        nodes[nodes[p].parent].kind = "module"
        => /\ Len(Split(nodes[p].index, "/")) = 2
           /\ Split(nodes[p].name, "/") =
                  <<nodes[ChassisOf(nodes, p)].name,
                    nodes[nodes[p].parent].index,
                    Split(nodes[p].index, "/")[2]>>

\* no two port nodes of the tree have the same name
PortNamesUnique ==
    \A p, q \in PortIds : nodes[p].name = nodes[q].name => p = q

\* C9: every port created by inventory is named
\* <chassis-name>/<module-index>/<port-index>, and no two port nodes of the
\* session tree share a name.
C9_Addressing == PortNamesAddress /\ PortNamesUnique

\* C10: in reserve_ports, a reserve command that succeeded is followed at
\* once by the reset of the same port, a reset follows nothing but the
\* successful reserve of its port, and the locations are handled in the
\* order given, each reserved and reset before the next is reserved.
C10_ReserveThenReset ==
    call.op = "reserve_ports"
    => \A i \in 1..Len(log) :
          /\ log[i].kind = "cmd"
          /\ (Reserve(i) /\ log[i].res = "ok")
             => /\ i < Len(log)
                /\ IsCmd(log[i + 1], "p_reset", "") /\ log[i + 1].obj = log[i].obj
          /\ ~Reserve(i)
             => /\ IsCmd(log[i], "p_reset", "") /\ i > 1
                /\ Reserve(i - 1) /\ log[i - 1].res = "ok"
                /\ log[i - 1].obj = log[i].obj
          /\ log[i].obj = call.arg[(i + 1) \div 2]

\* reserve_ports reserved and reset two locations
C10_Witness ==
    /\ call.op = "reserve_ports" /\ result = "ok"
    /\ Len(call.arg) = 2 /\ Len(log) = 4

\* a poll of the run-to-completion wait: a query that expects "off"
WaitQuery(j) ==
    log[j].kind = "query" /\ log[j].cmd = "p_traffic" /\ log[j].a1 = "off"

\* C11: in start_traffic no poll for "off" is made before every affected
\* chassis was sent its on-command, and none at all when blocking is false.
C11_OnBeforeAnyWait ==
    call.op = "start_traffic"
    => \A j \in 1..Len(log) :
          WaitQuery(j)
          => /\ call.flag
             /\ \A p \in Affected :
                   \E i \in 1..(j - 1) :
                       /\ IsCmd(log[i], "c_traffic", "on") /\ log[i].res = "ok"
                       /\ log[i].ch = nodes[ChassisOf(nodes, p)].name

\* a blocking start_traffic on ports of two chassis has begun to wait
C11_Witness ==
    /\ call.op = "start_traffic" /\ call.flag
    /\ \E p, q \in Affected : ChassisOf(nodes, p) # ChassisOf(nodes, q)
    /\ \E j \in 1..Len(log) : WaitQuery(j)

\* on the connection every first piece is followed by the rest of the same
\* request, and every rest follows its first piece
WritesWhole ==
    \A i \in 1..Len(sock.wire) :
        /\ (sock.wire[i].part = "head" /\ i < Len(sock.wire))
           => sock.wire[i + 1] = [sock.wire[i] EXCEPT !.part = "tail"]
        /\ sock.wire[i].part = "tail"
           => (i > 1 /\ sock.wire[i - 1] = [sock.wire[i] EXCEPT !.part = "head"])

\* every response a thread read answers the request that thread had made
ResponsesMatch ==
    \A i \in 1..Len(sock.got) :
        /\ sock.got[i].response.to = sock.got[i].reader
        /\ sock.got[i].response.k = sock.got[i].k

\* the chassis receives the caller's commands in the order of their issue
CommandsInOrder ==
    \A i, j \in 1..Len(sock.wire) :
        (i < j /\ sock.wire[i].by = "app" /\ sock.wire[j].by = "app")
        => sock.wire[i].k <= sock.wire[j].k

NodesKept ==
    /\ Len(nodes') >= Len(nodes)
    /\ \A i \in 1..Len(nodes) :
          /\ nodes'[i].kind = nodes[i].kind /\ nodes'[i].name = nodes[i].name
          /\ nodes'[i].parent = nodes[i].parent

\* only add_chassis adds a chassis node
ChassisOnlyAdded ==
    ChassisIds(nodes') # ChassisIds(nodes) => call'.op = "add_chassis"

\* a disconnect() that completed has left no chassis node in the tree
DisconnectLeavesNoChassis ==
    (call'.op = "disconnect" /\ result' = "ok") => ChassisIds(nodes') = {}

\* the steps that never remove a node and add chassis nodes in add_chassis only
C13_NodesPersist == [][NodesKept /\ ChassisOnlyAdded]_vars

\* C13: chassis nodes enter the tree through add_chassis only and are gone
\* once disconnect() has completed; module and port nodes are never
\* removed, whatever operation runs.
C13_NodeLifecycle ==
    [][ /\ ChassisOnlyAdded
        /\ DisconnectLeavesNoChassis
        /\ \A i \in 1..Len(nodes) :
              nodes[i].kind # "chassis"
              => (i <= Len(nodes') /\ nodes'[i].kind = nodes[i].kind
                                   /\ nodes'[i].name = nodes[i].name) ]_vars

\* the log of an add_chassis(ip) that built a chassis: the transport is
\* connected and the heartbeat started, then c_logon "password", then
\* c_owner "owner", all on the chassis ip, and nothing else; a command that
\* fails is the last one
LogonLog(lg, ip, res) ==
    /\ Len(lg) \in {3, 4}
    /\ \A i \in 1..Len(lg) : lg[i].ch = ip /\ lg[i].obj = ip
    /\ lg[1].kind = "io" /\ lg[1].cmd = "connect"
    /\ lg[2].kind = "io" /\ lg[2].cmd = "keep_alive" /\ lg[2].a1 = "start"
    /\ IsCmd(lg[3], "c_logon", "") /\ lg[3].a2 = Quote(Password)
    /\ Len(lg) = 4 => /\ IsCmd(lg[4], "c_owner", "")
                      /\ lg[4].a2 = Quote(SessionOwner)
                      /\ lg[3].res = "ok" /\ lg[4].res = res
    /\ Len(lg) = 3 => lg[3].res = res /\ res # "ok"

\* C14: add_chassis on an address the session has no chassis for creates
\* the chassis node, connects its transport and starts its heartbeat before
\* any command, then sends c_logon with the quoted password and then c_owner
\* with the quoted owner, and no other command; a successful call has sent
\* exactly these two.
C14_LogonSequence ==
    [][ (/\ result = "idle" /\ call'.op = "add_chassis"
         /\ call'.arg[1] \notin ChassisNames(nodes))
        => /\ Len(nodes') = Len(nodes) + 1
           /\ nodes'[Len(nodes')].kind = "chassis"
           /\ nodes'[Len(nodes')].name = call'.arg[1]
           /\ LogonLog(log', call'.arg[1], result')
           /\ result' = "ok" => Len(log') = 4 ]_vars

\* add_chassis built a second chassis and logged on
C14_Witness ==
    /\ call.op = "add_chassis" /\ result = "ok" /\ Len(log) = 4
    /\ Cardinality(ChassisIds(nodes)) = 2
    /\ log[4].a2 = Quote(SessionOwner)

\* a traffic operation called on a chassis itself
ChassisCall == call.op \in {"chassis.start_traffic", "chassis.stop_traffic"}

\* the state it commands
ChassisCommand == IF call.op = "chassis.start_traffic" THEN "on" ELSE "off"

\* the ports it targets: those given, or all ports of the chassis
Targeted ==
    ChassisOperationPorts(nodes, proc.groups[1].chassis, call.arg)

\* event j of the log is a poll of port p for state v with timeout T
Polled(j, p, v, T) ==
    /\ log[j].kind = "query" /\ log[j].cmd = "p_traffic"
    /\ log[j].obj = nodes[p].name /\ log[j].a1 = v /\ log[j].a2 = IntToStr(T)

\* one combined command for the targeted ports, sent before any poll; the
\* polls are confirmations (commanded state, short timeout) of targeted
\* ports or, in a blocking start, waits for "off" with the long timeout;
\* a call that returns has confirmed every targeted port
OneCommandThenPolls ==
    /\ \A i \in 1..Len(log) :
          log[i].kind = "cmd"
          => /\ IsCmd(log[i], "c_traffic", ChassisCommand)
             /\ log[i].a2 = PortsStr(nodes, Targeted)
             /\ log[i].ch = nodes[proc.groups[1].chassis].name
             /\ \A k \in 1..Len(log) : log[k].kind = "cmd" => k = i
    /\ \A j \in 1..Len(log) :
          log[j].kind = "query"
          => /\ \E i \in 1..(j - 1) : log[i].kind = "cmd" /\ log[i].res = "ok"
             /\ \E k \in 1..Len(Targeted) :
                   \/ Polled(j, Targeted[k], ChassisCommand, ShortTimeout)
                   \/ /\ Polled(j, Targeted[k], "off", LongTimeout)
                      /\ call.op = "chassis.start_traffic" /\ call.flag
    /\ result = "ok"
       => /\ \E i \in 1..Len(log) : log[i].kind = "cmd"
          /\ \A k \in 1..Len(Targeted) :
                \E j \in 1..Len(log) :
                    /\ Polled(j, Targeted[k], ChassisCommand, ShortTimeout)
                    /\ log[j].res = ChassisCommand

\* a blocking start that returned has waited for "off", with the long
\* timeout, on every port of ps, after all confirmations
WaitedFor(ps) ==
    \A k \in 1..Len(ps) :
        \E j \in 1..Len(log) :
            /\ Polled(j, ps[k], "off", LongTimeout) /\ log[j].res = "off"
            /\ \A i \in 1..Len(log) :
                  (log[i].kind = "query" /\ log[i].a2 = IntToStr(ShortTimeout))
                  => i < j

\* what holds of the chassis operations: the wait of a blocking start
\* covers the ports that were given
C15_WaitsForGivenPorts ==
    ChassisCall
    => /\ OneCommandThenPolls
       /\ (result = "ok" /\ call.flag) => WaitedFor(call.arg)

\* C15: a chassis start_traffic / stop_traffic sends exactly one combined
\* c_traffic command covering all targeted ports (the given ports, or all
\* ports of the chassis when none is given) and only then polls each
\* targeted port for the commanded state with timeout 40; the
\* run-to-completion wait of a blocking start polls each targeted port for
\* "off" with timeout 2628000.
C15_CommandThenPollAll ==
    ChassisCall
    => /\ OneCommandThenPolls
       /\ (result = "ok" /\ call.flag) => WaitedFor(Targeted)

\* a blocking chassis start on given ports returned after its waits
C15_WitnessGiven ==
    /\ call.op = "chassis.start_traffic" /\ call.flag /\ result = "ok"
    /\ Len(call.arg) = 2

\* the nodes a step has added to the tree
NewIds == (Len(nodes) + 1)..Len(nodes')

\* the new module nodes of chassis c at position pos, the new ports of module m
NewModules(c, pos) ==
    { n \in NewIds : /\ nodes'[n].kind = "module" /\ nodes'[n].parent = c
                     /\ nodes'[n].index = IntToStr(pos) }
NewPorts(m) == { n \in NewIds : nodes'[n].kind = "port" /\ nodes'[n].parent = m }

\* C16: an inventory() that returns has built, for each chassis, one module
\* node for every position of the reported port-count vector whose count is
\* nonzero (index = position, from 0) and none for a zero count, and below
\* each such module exactly one port per index 0..count-1; it has built
\* nothing else.
C16_InventoryBuilds ==
    [][ (result = "idle" /\ call'.op = "inventory" /\ result' = "ok")
        => /\ \A c \in ChassisIds(nodes) :
                 LET counts == PortCounts(nodes[c].name)
                 IN  \A pos \in 0..(Len(counts) - 1) :
                       /\ Cardinality(NewModules(c, pos)) =
                              IF counts[pos + 1] # 0 THEN 1 ELSE 0
                       /\ \A m \in NewModules(c, pos) :
                             /\ Cardinality(NewPorts(m)) = counts[pos + 1]
                             /\ \A k \in 0..(counts[pos + 1] - 1) :
                                   \E n \in NewPorts(m) :
                                       nodes'[n].index =
                                           Format2(IntToStr(pos), IntToStr(k))
           /\ \A n \in NewIds :
                 \/ /\ nodes'[n].kind = "module"
                    /\ nodes'[n].parent \in ChassisIds(nodes)
                    /\ n \in NewModules(nodes'[n].parent, StrToInt(nodes'[n].index))
                    /\ StrToInt(nodes'[n].index) <
                          Len(PortCounts(nodes[nodes'[n].parent].name))
                 \/ /\ nodes'[n].kind = "port"
                    /\ nodes'[n].parent \in NewIds
                    /\ nodes'[nodes'[n].parent].kind = "module" ]_vars

\* inventory() of a chassis with an empty position and a module of two
\* ports has returned
C16_Witness ==
    /\ call.op = "inventory" /\ result = "ok"
    /\ \E c \in ChassisIds(nodes) :
          /\ PortCounts(nodes[c].name) = <<0, 2>>
          /\ \E m \in 1..Len(nodes) :
                /\ nodes[m].kind = "module" /\ nodes[m].parent = c
                /\ Cardinality({ n \in 1..Len(nodes) : nodes[n].parent = m }) = 2

\* the session operations that send commands to ports
SessionOps == {"reserve_ports", "release_ports", "clear_stats",
               "start_traffic", "stop_traffic"}

\* the errors an operation ends with
Errors == {"ProtocolError", "ReservationConflict", "Timeout"}

\* a request that failed
Failed(e) == e.res \in {"ProtocolError", "ReservationConflict"}

\* how often a command equal to event i of the log was sent
TimesSent(i) == Cardinality({ j \in 1..Len(log) : log[j] = log[i] })

\* how often the caller's arguments name the port of event i: the
\* locations of reserve_ports, the port objects of clear_stats
TimesAsked(i) ==
    IF call.op = "reserve_ports"
    THEN Cardinality({ k \in 1..Len(call.arg) : call.arg[k] = log[i].obj })
    ELSE IF call.op = "clear_stats" /\ Len(call.arg) > 0
    THEN Cardinality({ k \in 1..Len(call.arg) :
                         nodes[call.arg[k]].name = log[i].obj })
    ELSE 1

\* no command was sent again: each was sent once (once for every time the
\* caller's arguments name its port)
NothingResent ==
    \A i \in 1..Len(log) :
        log[i].kind = "cmd" => TimesSent(i) <= TimesAsked(i)

\* a request that failed is the last thing the operation did, and its
\* failure is the operation's result
FailureEnds ==
    /\ \A i \in 1..Len(log) : Failed(log[i]) => i = Len(log) /\ result = log[i].res
    /\ result \in {"ProtocolError", "ReservationConflict"}
       => Len(log) > 0 /\ Failed(log[Len(log)])

\* a wait that timed out is the last thing the operation did; it came
\* after the traffic command of its chassis, which was sent and answered,
\* and the only commands sent are traffic commands for the same state
TimeoutLeavesCommand ==
    result = "Timeout"
    => /\ Len(log) > 0 /\ log[Len(log)].kind = "query"
       /\ log[Len(log)].res # log[Len(log)].a1
       /\ \E i \in 1..Len(log) :
             /\ IsCmd(log[i], "c_traffic", proc.command) /\ log[i].res = "ok"
             /\ log[i].ch = log[Len(log)].ch
       /\ \A i \in 1..Len(log) :
             log[i].kind = "cmd" => IsCmd(log[i], "c_traffic", proc.command)

\* the log of a session operation, as far as it has got
FailFast ==
    call.op \in SessionOps
    => NothingResent /\ FailureEnds /\ TimeoutLeavesCommand

Completed ==
    Cardinality({ i \in 1..Len(log) :
                    IsCmd(log[i], "p_reset", "") /\ log[i].res = "ok" })

\* location k of reserve_ports names a chassis the session does not have
UnknownChassis(k) ==
    Split(call.arg[k], "/")[1] \notin ChassisNames(nodes)

\* the state after a reserve_ports whose location k = Completed + 1 failed:
\* the locations before k were reserved and reset, in order, and are still
\* held; nothing was released; what follows in the log is sent to location
\* k only and ends with its failure; the call raised
StoppedAt(k) ==
    /\ result \in {"KeyError", "ReservationConflict", "ProtocolError"}
    /\ \A i \in 1..(k - 1) :
          /\ Reserve(2 * i - 1) /\ log[2 * i - 1].res = "ok"
          /\ IsCmd(log[2 * i], "p_reset", "") /\ log[2 * i].res = "ok"
          /\ log[2 * i - 1].obj = call.arg[i] /\ log[2 * i].obj = call.arg[i]
          /\ owner[call.arg[i]] = "me" /\ call.arg[i] \in reserved
    /\ \A i \in 1..Len(log) : ~Release(i)
    /\ Len(log) \in {2 * (k - 1), 2 * (k - 1) + 1, 2 * (k - 1) + 2}
    /\ \A i \in (2 * (k - 1) + 1)..Len(log) :
          log[i].kind = "cmd" /\ log[i].obj = call.arg[k]
    /\ Len(log) = 2 * (k - 1) <=> result = "KeyError"
    /\ result = "KeyError" <=> UnknownChassis(k)
    /\ Len(log) > 2 * (k - 1) => log[Len(log)].res = result

\* C18: reserve_ports handles its locations in list order; when location k
\* fails (unknown chassis address, ReservationConflict, failed reserve or
\* reset) the locations before k stay reserved and reset, nothing is
\* released, the locations after k are sent no command, and the call
\* raises instead of returning the port map; it returns only when every
\* location was reserved and reset.
C18_ReserveNotAtomic ==
    call.op = "reserve_ports"
    => IF Completed < Len(call.arg) THEN StoppedAt(Completed + 1)
       ELSE result = "ok"

\* the second of two locations was refused, the first stays reserved
C18_Witness ==
    /\ call.op = "reserve_ports" /\ result = "ReservationConflict"
    /\ Len(call.arg) = 2 /\ Completed = 1 /\ Len(log) = 3
    /\ owner[call.arg[1]] = "me" /\ owner[call.arg[2]] = "other"

\* event j of the log closes a chassis transport
Disconnect(j) == log[j].kind = "io" /\ log[j].cmd = "disconnect"

\* C19: disconnect() sends every release before it closes any transport;
\* when it returns, every chassis of the session, with ports or without,
\* has had its transport closed exactly once; when a release fails, no
\* transport is closed.
C19_ReleaseThenDisconnect ==
    call.op = "disconnect"
    => /\ \A i, j \in 1..Len(log) : (Release(i) /\ Disconnect(j)) => i < j
       /\ result = "ok"
          => \A c \in ChassisIds(nodes) :
                /\ nodes[c].api = "disconnected"
                /\ Cardinality({ j \in 1..Len(log) :
                                   Disconnect(j) /\ log[j].ch = nodes[c].name }) = 1
       /\ (\E i \in 1..Len(log) : Release(i) /\ log[i].res # "ok")
          => /\ result = "ProtocolError"
             /\ \A j \in 1..Len(log) : ~Disconnect(j)
             /\ \A c \in ChassisIds(nodes) : nodes[c].api = "connected"

\* disconnect() of a session with a chassis that has a port and a chassis
\* that has none has returned
C19_Witness ==
    /\ call.op = "disconnect" /\ result = "ok"
    /\ \E i \in 1..Len(log) : Release(i)
    /\ \E c \in ChassisIds(nodes) : ChassisPorts(nodes, c) = <<>>
    /\ Cardinality(ChassisIds(nodes)) = 2

\* the location the running operation polls
PolledLocation == Location(nodes, PolledPorts(proc)[proc.pi])

\* a blocking start_traffic is confirming a port whose run is already over:
\* the hardware took the on-command and the traffic has ended by itself
RunOverUnconfirmed ==
    /\ call.op = "start_traffic" /\ call.flag
    /\ result = "running" /\ proc.pc = "confirm"
    /\ traffic[PolledLocation] = "off" /\ target[PolledLocation] = "none"

\* the chassis after the one the operation is at were sent nothing
LaterChassisUntouched ==
    \A g \in (proc.ci + 1)..Len(proc.groups) :
        \A i \in 1..Len(log) :
            log[i].ch # nodes[proc.groups[g].chassis].name

\* C20: in a blocking start_traffic every poll is a confirmation ("on",
\* timeout 40) or a wait ("off", timeout 2628000), and the wait for a port
\* starts only after a confirmation of that port answered "on"; a call
\* that ends while confirming ends with Timeout (or the error of a broken
\* request), not before the short timeout has passed, and the chassis
\* after the one being confirmed were sent no command; a port whose run is
\* over before it is confirmed can only lead to that failure.
C20_ConfirmBeforeWait ==
    [][ /\ (call'.op = "start_traffic" /\ call'.flag)
           => /\ \A j \in 1..Len(log') :
                    log'[j].kind = "query"
                    => \/ log'[j].a1 = "on" /\ log'[j].a2 = IntToStr(ShortTimeout)
                       \/ /\ log'[j].a1 = "off" /\ log'[j].a2 = IntToStr(LongTimeout)
                          /\ \E i \in 1..(j - 1) :
                                /\ log'[i].kind = "query" /\ log'[i].obj = log'[j].obj
                                /\ log'[i].a1 = "on" /\ log'[i].res = "on"
                                /\ log'[i].a2 = IntToStr(ShortTimeout)
              /\ (result' = "Timeout" /\ proc'.pc = "confirm")
                 => /\ proc'.elapsed >= ShortTimeout
                    /\ LaterChassisUntouched'
                    /\ \A j \in 1..Len(log') : log'[j].a1 # "off"
        /\ RunOverUnconfirmed
           => \/ RunOverUnconfirmed' /\ proc'.pi = proc.pi /\ proc'.ci = proc.ci
              \/ /\ result' \in {"Timeout", "ProtocolError"}
                 /\ proc'.pc = "confirm" /\ LaterChassisUntouched' ]_vars

\* a blocking start_traffic over two chassis timed out confirming the
\* first, whose run had started and ended unseen; the second chassis was
\* sent nothing
C20_Witness ==
    /\ call.op = "start_traffic" /\ call.flag /\ result = "Timeout"
    /\ proc.pc = "confirm" /\ proc.ci = 1 /\ Len(proc.groups) = 2
    /\ traffic[PolledLocation] = "off" /\ target[PolledLocation] = "none"
    /\ \A j \in 1..Len(log) : log[j].kind = "query" => log[j].res = "off"
    /\ LaterChassisUntouched

====
